---------------------------- MODULE Spec2Model ----------------------------
(***************************************************************************)
(* Runners Poker v0.1 (runners_poker_v01.py): a Streamlit script that      *)
(* turns final poker chip counts into a forfeit per player.                *)
(*                                                                         *)
(* The script is re-executed from top to bottom on every user interaction. *)
(* What survives between two executions is the session's widget state; the *)
(* page (warning, table rows, summary sentences, buttons) is rebuilt by    *)
(* every execution.  A state of the model is the widget state of a browser *)
(* session together with the page the last execution rendered.             *)
(*                                                                         *)
(* Forfeits are Python floats.  They are modelled as IEEE-754 binary64     *)
(* values (round to nearest, ties to even) on top of a small arbitrary     *)
(* precision natural number library, so that the rounding of the displayed *)
(* amount is computed the way the interpreter computes it.                 *)
(***************************************************************************)
EXTENDS Integers, Sequences, FiniteSets, TLC

(***************************************************************************)
(* Natural numbers of arbitrary size: little-endian sequences of limbs in  *)
(* 0 .. Base-1 without leading (most significant) zero limbs; <<>> is 0.   *)
(***************************************************************************)
LimbBits == 14
Base == 2 ^ LimbBits

RestOf(a) == IF a = <<>> THEN <<>> ELSE Tail(a)
LimbOf(a) == IF a = <<>> THEN 0 ELSE Head(a)

RECURSIVE BTrim(_)
BTrim(a) ==
    IF a = <<>> THEN <<>>
    ELSE IF a[Len(a)] = 0 THEN BTrim(SubSeq(a, 1, Len(a) - 1))
    ELSE a

RECURSIVE BFromInt(_)
BFromInt(n) == IF n = 0 THEN <<>> ELSE <<n % Base>> \o BFromInt(n \div Base)

RECURSIVE BToInt(_)
BToInt(a) == IF a = <<>> THEN 0 ELSE Head(a) + Base * BToInt(Tail(a))

RECURSIVE BAddC(_, _, _)
BAddC(a, b, c) ==
    IF a = <<>> /\ b = <<>> THEN (IF c = 0 THEN <<>> ELSE <<c>>)
    ELSE LET x == LimbOf(a) + LimbOf(b) + c
         IN  <<x % Base>> \o BAddC(RestOf(a), RestOf(b), x \div Base)

BAdd(a, b) == BAddC(a, b, 0)

\* a - b for a >= b; w is the borrow.
RECURSIVE BSubC(_, _, _)
BSubC(a, b, w) ==
    IF a = <<>> THEN <<>>
    ELSE LET x == Head(a) - LimbOf(b) - w
         IN  IF x < 0 THEN <<x + Base>> \o BSubC(Tail(a), RestOf(b), 1)
             ELSE <<x>> \o BSubC(Tail(a), RestOf(b), 0)

BSub(a, b) == BTrim(BSubC(a, b, 0))

\* a * k + c for a limb-sized k.
RECURSIVE BMulSmallC(_, _, _)
BMulSmallC(a, k, c) ==
    IF a = <<>> THEN BFromInt(c)
    ELSE LET x == Head(a) * k + c
         IN  <<x % Base>> \o BMulSmallC(Tail(a), k, x \div Base)

BMulSmall(a, k) == BTrim(BMulSmallC(a, k, 0))

RECURSIVE BMulRec(_, _)
BMulRec(a, b) ==
    IF b = <<>> THEN <<>>
    ELSE BAdd(BMulSmallC(a, Head(b), 0), <<0>> \o BMulRec(a, Tail(b)))

BMul(a, b) == IF a = <<>> \/ b = <<>> THEN <<>> ELSE BTrim(BMulRec(a, b))

\* -1, 0, 1 as a < b, a = b, a > b.
RECURSIVE BCmpFrom(_, _, _)
BCmpFrom(a, b, i) ==
    IF i = 0 THEN 0
    ELSE IF a[i] < b[i] THEN -1
    ELSE IF a[i] > b[i] THEN 1
    ELSE BCmpFrom(a, b, i - 1)

BCmp(a, b) ==
    IF Len(a) < Len(b) THEN -1
    ELSE IF Len(a) > Len(b) THEN 1
    ELSE BCmpFrom(a, b, Len(a))

RECURSIVE IntBitLen(_)
IntBitLen(n) == IF n = 0 THEN 0 ELSE 1 + IntBitLen(n \div 2)

BBitLen(a) ==
    IF a = <<>> THEN 0 ELSE (Len(a) - 1) * LimbBits + IntBitLen(a[Len(a)])

\* floor(a / 2^k)
BShr(a, k) ==
    LET q == k \div LimbBits
        r == k % LimbBits
        n == Len(a) - q
        At(i) == IF i <= Len(a) THEN a[i] ELSE 0
    IN  IF n <= 0 THEN <<>>
        ELSE BTrim([i \in 1 .. n |->
                      (At(i + q) \div (2 ^ r))
                    + (At(i + q + 1) % (2 ^ r)) * (2 ^ (LimbBits - r))])

\* a mod 2^k
BLowBits(a, k) ==
    LET q == k \div LimbBits
        r == k % LimbBits
    IN  IF q >= Len(a) THEN a
        ELSE BTrim(SubSeq(a, 1, q) \o <<a[q + 1] % (2 ^ r)>>)

\* a * 2^k
BShl(a, k) ==
    IF a = <<>> THEN <<>>
    ELSE [i \in 1 .. (k \div LimbBits) |-> 0] \o BMulSmall(a, 2 ^ (k % LimbBits))

RECURSIVE IntTrailingZeros(_)
IntTrailingZeros(n) == IF n % 2 = 1 THEN 0 ELSE 1 + IntTrailingZeros(n \div 2)

\* The number of trailing zero bits of a > 0.
RECURSIVE BTrailingZeros(_)
BTrailingZeros(a) ==
    IF Head(a) = 0 THEN LimbBits + BTrailingZeros(Tail(a))
    ELSE IntTrailingZeros(Head(a))

BIsOdd(a) == a # <<>> /\ Head(a) % 2 = 1

(***************************************************************************)
(* binary64 values: [neg, m, e] stands for (-1)^neg * m * 2^e with m odd   *)
(* and below 2^MantissaBits (zero is m = <<>>, e = 0, neg = FALSE).  Every  *)
(* value the script computes lies far inside the normal range, so neither  *)
(* overflow nor subnormals occur.                                          *)
(***************************************************************************)
MantissaBits == 53

FZero == [neg |-> FALSE, m |-> <<>>, e |-> 0]

FNorm(neg, n, e) ==
    IF n = <<>> THEN FZero
    ELSE LET tz == BTrailingZeros(n)
         IN  [neg |-> neg, m |-> BShr(n, tz), e |-> e + tz]

\* (-1)^neg * n * 2^e rounded to the nearest binary64, ties to even.
FRound(neg, n, e) ==
    IF BBitLen(n) <= MantissaBits THEN FNorm(neg, n, e)
    ELSE LET k    == BBitLen(n) - MantissaBits
             q    == BShr(n, k)
             c    == BCmp(BLowBits(n, k), BShl(<<1>>, k - 1))
             up   == c > 0 \/ (c = 0 /\ BIsOdd(q))
         IN  FNorm(neg, IF up THEN BAdd(q, <<1>>) ELSE q, e + k)

\* An int (of either sign) as a float.
FFromInt(n) == IF n < 0 THEN FNorm(TRUE, BFromInt(0 - n), 0)
               ELSE FNorm(FALSE, BFromInt(n), 0)

FOne == FFromInt(1)

\* The limbs of the fraction r / s (r < s), most significant first.
RECURSIVE FracLimbs(_, _, _)
FracLimbs(r, s, n) ==
    IF n = 0 THEN <<>>
    ELSE <<(r * Base) \div s>> \o FracLimbs((r * Base) % s, s, n - 1)

RECURSIVE FracRem(_, _, _)
FracRem(r, s, n) == IF n = 0 THEN r ELSE FracRem((r * Base) % s, s, n - 1)

RECURSIVE Reverse(_)
Reverse(a) == IF a = <<>> THEN <<>> ELSE Reverse(Tail(a)) \o <<Head(a)>>

\* Limbs of a quotient kept behind the binary point: more than MantissaBits
\* significant bits are left for every quotient of integers below 2^17.
QuotientLimbs == 6

\* a / b for integers a >= 0, b >= 1 (Python's true division of two ints, and
\* the value of the decimal literal a/b): the correctly rounded quotient.
FDivInt(a, b) ==
    LET q      == BTrim(Reverse(FracLimbs(a % b, b, QuotientLimbs))
                        \o BFromInt(a \div b))
        sticky == IF FracRem(a % b, b, QuotientLimbs) = 0 THEN 0 ELSE 1
    IN  FRound(FALSE, BAdd(BMulSmall(q, 2), BFromInt(sticky)),
               0 - (LimbBits * QuotientLimbs) - 1)

FMul(x, y) == FRound(x.neg # y.neg, BMul(x.m, y.m), x.e + y.e)

FNeg(x) == IF x.m = <<>> THEN x ELSE [x EXCEPT !.neg = ~x.neg]

\* -1, 0, 1 as |x| < |y|, |x| = |y|, |x| > |y|.
FCmpMag(x, y) ==
    LET e == IF x.e < y.e THEN x.e ELSE y.e
    IN  BCmp(BShl(x.m, x.e - e), BShl(y.m, y.e - e))

FCmp(x, y) ==
    IF x.neg /\ ~y.neg THEN -1
    ELSE IF ~x.neg /\ y.neg THEN 1
    ELSE IF x.neg THEN 0 - FCmpMag(x, y)
    ELSE FCmpMag(x, y)

FLeq(x, y) == FCmp(x, y) <= 0

FAdd(x, y) ==
    LET e  == IF x.e < y.e THEN x.e ELSE y.e
        xm == BShl(x.m, x.e - e)
        ym == BShl(y.m, y.e - e)
    IN  IF x.neg = y.neg THEN FRound(x.neg, BAdd(xm, ym), e)
        ELSE IF BCmp(xm, ym) >= 0 THEN FRound(x.neg, BSub(xm, ym), e)
        ELSE FRound(y.neg, BSub(ym, xm), e)

FSub(x, y) == FAdd(x, FNeg(y))

\* Python's min(x, y) of two numbers: the first argument unless the second
\* is strictly smaller.
FMin(x, y) == IF FCmp(y, x) < 0 THEN y ELSE x

\* round(x, nd) in units of 10^-nd: Python rounds the exact binary value to
\* nd decimals, ties to even.
PyRound(x, nd) ==
    LET t   == BMul(x.m, BFromInt(10 ^ nd))
        mag == IF x.e >= 0 THEN BToInt(BShl(t, x.e))
               ELSE LET k  == 0 - x.e
                        q  == BShr(t, k)
                        c  == BCmp(BLowBits(t, k), BShl(<<1>>, k - 1))
                        up == c > 0 \/ (c = 0 /\ BIsOdd(q))
                    IN  BToInt(q) + (IF up THEN 1 ELSE 0)
    IN  IF x.neg THEN 0 - mag ELSE mag

(***************************************************************************)
(* The script's constants.  Numbers the user enters with one decimal (max  *)
(* forfeits) and the multipliers are kept in tenths; Tenths turns them     *)
(* into the float the script computes with.                                *)
(***************************************************************************)
Tenths(t) == FDivInt(t, 10)

\* The three options of the mode radio, each named by the word it starts with
\* (the script tells them apart by mode.startswith).
Modes == {"Equal", "Weighted", "Custom"}
DefaultMode == "Equal"

mode_equal(mode) == mode = "Equal"
mode_weighted(mode) == mode = "Weighted"
mode_custom(mode) == mode = "Custom"

ForfeitTypes == {"Run (km)", "Cycle (km)", "Burpees (reps)", "Steps (x1000)"}
DefaultForfeitType == "Run (km)"

NoActivity == "None"

FORFEIT_TYPE_CONFIG(forfeit_type) ==
    CASE forfeit_type = "Run (km)"       -> [unit |-> "km", activity |-> "run"]
      [] forfeit_type = "Cycle (km)"     -> [unit |-> "km", activity |-> "cycle"]
      [] forfeit_type = "Burpees (reps)" -> [unit |-> "burpees", activity |-> NoActivity]
      [] forfeit_type = "Steps (x1000)"  -> [unit |-> "k steps", activity |-> NoActivity]
      [] OTHER                           -> [unit |-> "units", activity |-> NoActivity]

MinStartingChips == 1
DefaultStartingChips == 1000
MinMaxKm == 1
DefaultMaxKm == 100
MinPlayers == 2
MaxPlayers == 10
DefaultPlayers == 4
DefaultCategoryIndex == 3
DefaultChips == 0

fitness_categories == <<"Couch Potato", "Beginner", "Casual", "Regular", "Athlete">>

Categories == {fitness_categories[k] : k \in DOMAIN fitness_categories}

multipliers == [c \in Categories |->
    CASE c = "Couch Potato" -> 6
      [] c = "Beginner"     -> 8
      [] c = "Casual"       -> 10
      [] c = "Regular"      -> 12
      [] c = "Athlete"      -> 14]

\* Variant of Multiplier: a category missing from the table weighs nothing.
MultiplierOrZero(fitness) ==
    IF fitness \in DOMAIN multipliers THEN Tenths(multipliers[fitness])
    ELSE FZero

\* multipliers.get(fitness, 1.0)
Multiplier(fitness) ==
    IF fitness \in DOMAIN multipliers THEN Tenths(multipliers[fitness])
    ELSE FOne

\* f"Player {i+1}" for the player at position i (counted from 1 here).
PlayerLabels == <<"Player 1", "Player 2", "Player 3", "Player 4", "Player 5",
                  "Player 6", "Player 7", "Player 8", "Player 9", "Player 10">>

DefaultName(i) == PlayerLabels[i]

\* step of the final chips inputs
ChipStep(starting_chips) ==
    IF starting_chips >= 10 THEN starting_chips \div 10 ELSE 1

(***************************************************************************)
(* The forfeit of one player (the body of the loop over the players).      *)
(***************************************************************************)
\* chip_ratio = min(chips / starting_chips, 1) if starting_chips > 0 else 0
ChipRatio(chips, starting_chips) ==
    IF starting_chips > 0 THEN FMin(FDivInt(chips, starting_chips), FOne)
    ELSE FZero

\* Variant of BaseKm: neither the check for chips >= starting_chips nor the
\* clamp of the ratio.
BaseKmUnguarded(chips, starting_chips, max) ==
    FMul(max, FSub(FOne, FDivInt(chips, starting_chips)))

\* Variant of BaseKm: the share of the chips kept, not of the chips lost.
BaseKmByRatio(chips, starting_chips, max) ==
    IF chips >= starting_chips THEN FZero
    ELSE FMul(max, ChipRatio(chips, starting_chips))

\* 0.0 if chips >= starting_chips else max * (1 - chip_ratio)
BaseKm(chips, starting_chips, max) ==
    IF chips >= starting_chips THEN FZero
    ELSE FMul(max, FSub(FOne, ChipRatio(chips, starting_chips)))

\* p.get(key, default) of a player's dict
Get(p, key, default) == IF key \in DOMAIN p THEN p[key] ELSE default

\* Variant of ForfeitKm: Custom mode computes from the default max forfeit,
\* not from the player's.
ForfeitKmFromDefaultMax(mode, starting_chips, max_km, p) ==
    IF mode_weighted(mode)
    THEN FMul(BaseKm(p.chips, starting_chips, Tenths(max_km)),
              Multiplier(Get(p, "fitness", "Casual")))
    ELSE IF mode_custom(mode)
    THEN BaseKm(p.chips, starting_chips, Tenths(DefaultMaxKm))
    ELSE BaseKm(p.chips, starting_chips, Tenths(max_km))

\* Variant of ForfeitKm: Weighted mode leaves the multiplier out.
ForfeitKmUnweighted(mode, starting_chips, max_km, p) ==
    IF mode_custom(mode)
    THEN BaseKm(p.chips, starting_chips, Tenths(Get(p, "max_km", DefaultMaxKm)))
    ELSE BaseKm(p.chips, starting_chips, Tenths(max_km))

\* forfeit_km of the player p, a dict with "chips" and, by mode, "fitness"
\* or "max_km"; max_km is the game's max forfeit (unused in Custom mode).
\* Max forfeits are in tenths.
ForfeitKm(mode, starting_chips, max_km, p) ==
    LET base_km_equal  == BaseKm(p.chips, starting_chips, Tenths(max_km))
        mult           == Multiplier(Get(p, "fitness", "Casual"))
        player_max     == Get(p, "max_km", DefaultMaxKm)
        base_km_custom == BaseKm(p.chips, starting_chips, Tenths(player_max))
    IN  IF mode_weighted(mode) THEN FMul(base_km_equal, mult)
        ELSE IF mode_custom(mode) THEN base_km_custom
        ELSE base_km_equal

\* The displayed number, int(round(x, 2)) if it is whole else round(x, 2),
\* in hundredths.
Displayed(x) == PyRound(x, 2)

\* round(chip_ratio * 100, 1), in tenths of a percent.
ChipPercent(chips, starting_chips) ==
    PyRound(FMul(ChipRatio(chips, starting_chips), FFromInt(100)), 1)

(***************************************************************************)
(* One execution of the script on a session's widget state w.              *)
(*                                                                         *)
(* w holds the value of every widget the session keeps state for:          *)
(*   mode, forfeit_type, starting_chips, num_players   (always rendered)   *)
(*   max_km   unit label -> tenths     (no key: identified by its label)   *)
(*   name     i -> text                (key name_<i>)                      *)
(*   cat      i -> category            (key cat_<i>)                       *)
(*   maxkm    i -> tenths              (key maxkm_<i>)                     *)
(*   chips    <<name, step>> -> int    (key chips_<name>; a number input   *)
(*                                      is a new widget when its step      *)
(*                                      changes)                           *)
(* A widget without an entry returns its default value.  After an          *)
(* execution the session keeps the state of the widgets it rendered and    *)
(* drops the rest, so a widget that comes back starts from its default.    *)
(***************************************************************************)
NoValue == "None"

Lookup(f, k, d) == IF k \in DOMAIN f THEN f[k] ELSE d

unit_label(w) == FORFEIT_TYPE_CONFIG(w.forfeit_type).unit

max_km(w) ==
    IF mode_equal(w.mode) \/ mode_weighted(w.mode)
    THEN Lookup(w.max_km, unit_label(w), DefaultMaxKm)
    ELSE NoValue

NameOf(w, i) == Lookup(w.name, i, DefaultName(i))

ChipsKey(w, i) == <<NameOf(w, i), ChipStep(w.starting_chips)>>

\* players after the two loops that build it: name, the mode's setting, chips.
players(w) ==
    [i \in 1 .. w.num_players |->
        LET chips == Lookup(w.chips, ChipsKey(w, i), DefaultChips) IN
        IF mode_weighted(w.mode)
        THEN [name |-> NameOf(w, i), chips |-> chips,
              fitness |-> Lookup(w.cat, i, fitness_categories[DefaultCategoryIndex])]
        ELSE IF mode_custom(w.mode)
        THEN [name |-> NameOf(w, i), chips |-> chips,
              max_km |-> Lookup(w.maxkm, i, DefaultMaxKm)]
        ELSE [name |-> NameOf(w, i), chips |-> chips]]

\* The position of the first player whose final chips input reuses the key of
\* an earlier player's (Streamlit raises a duplicate key error there), or 0.
DuplicateKeyAt(w) ==
    LET dup == {i \in 1 .. w.num_players :
                    \E j \in 1 .. i - 1 : NameOf(w, j) = NameOf(w, i)}
    IN  IF dup = {} THEN 0 ELSE CHOOSE i \in dup : \A j \in dup : i <= j

\* The players whose final chips input the execution renders.
ChipsInputs(w) ==
    IF DuplicateKeyAt(w) = 0 THEN 1 .. w.num_players
    ELSE 1 .. DuplicateKeyAt(w) - 1

\* The state kept for one family of widgets after an execution: D maps each
\* widget the execution rendered to its default value.
Settle(f, D) == [k \in DOMAIN D |-> IF k \in DOMAIN f THEN f[k] ELSE D[k]]

AfterRun(w) ==
    LET n == w.num_players
    IN  [mode           |-> w.mode,
         forfeit_type   |-> w.forfeit_type,
         starting_chips |-> w.starting_chips,
         num_players    |-> n,
         max_km |-> Settle(w.max_km,
                      [k \in IF mode_custom(w.mode) THEN {} ELSE {unit_label(w)}
                          |-> DefaultMaxKm]),
         name   |-> Settle(w.name, [i \in 1 .. n |-> DefaultName(i)]),
         cat    |-> Settle(w.cat,
                      [i \in IF mode_weighted(w.mode) THEN 1 .. n ELSE {}
                          |-> fitness_categories[DefaultCategoryIndex]]),
         maxkm  |-> Settle(w.maxkm,
                      [i \in IF mode_custom(w.mode) THEN 1 .. n ELSE {}
                          |-> DefaultMaxKm]),
         chips  |-> Settle(w.chips,
                      [k \in {ChipsKey(w, i) : i \in ChipsInputs(w)}
                          |-> DefaultChips])]

\* Variant of ChipWarning: only a surplus of chips is reported.
ChipWarningOnSurplus(total_final_chips, total_starting_chips) ==
    IF total_final_chips > total_starting_chips THEN "more" ELSE "none"

\* The chip total check: the warning shown, if any.
ChipWarning(total_final_chips, total_starting_chips) ==
    IF total_final_chips # total_starting_chips
    THEN IF total_final_chips - total_starting_chips > 0 THEN "more" ELSE "less"
    ELSE "none"

RECURSIVE SumChips(_, _)
SumChips(ps, n) == IF n = 0 THEN 0 ELSE SumChips(ps, n - 1) + ps[n].chips

total_final_chips(w) == SumChips(players(w), w.num_players)

total_starting_chips(w) == w.starting_chips * w.num_players

\* The table row of player p, whose forfeit is forfeit_km.
Row(mode, starting_chips, p, forfeit_km) ==
    LET common == [player |-> p.name, final_chips |-> p.chips,
                   chip_percent |-> ChipPercent(p.chips, starting_chips),
                   forfeit |-> Displayed(forfeit_km)]
    IN  IF mode_weighted(mode)
        THEN [fitness_category |-> Get(p, "fitness", "-")] @@ common
        ELSE IF mode_custom(mode)
        THEN [player_max |-> Displayed(Tenths(Get(p, "max_km", DefaultMaxKm)))]
             @@ common
        ELSE common

\* The summary sentence of a row: "No <activity or unit> required! (0 <unit>)"
\* or "<amount> <unit> [to <activity>] by <deadline>."
Sentence(r, cfg) ==
    IF r.forfeit = 0
    THEN [player |-> r.player, text |-> "none required",
          what |-> IF cfg.activity # NoActivity THEN cfg.activity ELSE cfg.unit,
          amount |-> 0, unit |-> cfg.unit, deadline |-> FALSE]
    ELSE [player |-> r.player, text |-> "amount by deadline",
          what |-> cfg.activity,
          amount |-> r.forfeit, unit |-> cfg.unit, deadline |-> TRUE]

IdlePage(error) ==
    [error |-> error, results |-> FALSE, warning |-> "none",
     forfeit_km |-> <<>>, rows |-> <<>>, summary |-> <<>>]

\* Variant of Results: a player's chips are measured against the average
\* final stack of the table, not against the starting chips.
ResultsOfPot(w) ==
    LET ps   == players(w)
        cfg  == FORFEIT_TYPE_CONFIG(w.forfeit_type)
        avg  == total_final_chips(w) \div w.num_players
        km   == [i \in 1 .. w.num_players |->
                    ForfeitKm(w.mode, avg, max_km(w), ps[i])]
        rows == [i \in 1 .. w.num_players |->
                    Row(w.mode, w.starting_chips, ps[i], km[i])]
    IN  [error |-> FALSE, results |-> TRUE,
         warning |-> ChipWarning(total_final_chips(w), total_starting_chips(w)),
         forfeit_km |-> km,
         rows |-> rows,
         summary |-> [i \in 1 .. w.num_players |-> Sentence(rows[i], cfg)]]

\* What the Calculate branch renders: the warning, the table, the summary and
\* the reset button.  forfeit_km keeps the loop's unrounded forfeit per player.
Results(w) ==
    LET ps   == players(w)
        cfg  == FORFEIT_TYPE_CONFIG(w.forfeit_type)
        km   == [i \in 1 .. w.num_players |->
                    ForfeitKm(w.mode, w.starting_chips, max_km(w), ps[i])]
        rows == [i \in 1 .. w.num_players |->
                    Row(w.mode, w.starting_chips, ps[i], km[i])]
    IN  [error |-> FALSE, results |-> TRUE,
         warning |-> ChipWarning(total_final_chips(w), total_starting_chips(w)),
         forfeit_km |-> km,
         rows |-> rows,
         summary |-> [i \in 1 .. w.num_players |-> Sentence(rows[i], cfg)]]

\* The page of an execution in which "Calculate forfeits" is not clicked: the
\* duplicate key error, or the form and the caption below it.
FormPage(w) == IdlePage(DuplicateKeyAt(w) # 0)

(***************************************************************************)
(* Sessions.  Every browser session has its own widget state and page.     *)
(***************************************************************************)
VARIABLES widget_state, page

vars == <<widget_state, page>>

\* The sessions that are open, among the ids a session can have.
SessionIds == {1, 2}
Sessions == DOMAIN widget_state

\* The widget state before the first execution, and after it.
NoWidgets ==
    [mode |-> DefaultMode, forfeit_type |-> DefaultForfeitType,
     starting_chips |-> DefaultStartingChips, num_players |-> DefaultPlayers,
     max_km |-> <<>>, name |-> <<>>, cat |-> <<>>, maxkm |-> <<>>,
     chips |-> <<>>]

FirstRun == AfterRun(NoWidgets)

\* The script runs on the widget state w of session u and renders pg.
Rerun(u, w, pg) ==
    /\ widget_state' = [widget_state EXCEPT ![u] = AfterRun(w)]
    /\ page' = [page EXCEPT ![u] = pg]

\* A changed widget starts a run in which no button is clicked.
Changed(u, w) == Rerun(u, w, FormPage(w))

(***************************************************************************)
(* The user's interactions.  Each changes one widget and runs the script.  *)
(***************************************************************************)
SetMode(u, v) ==
    /\ u \in Sessions
    /\ v \in Modes
    /\ v # widget_state[u].mode
    /\ Changed(u, [widget_state[u] EXCEPT !.mode = v])

SetForfeitType(u, v) ==
    /\ u \in Sessions
    /\ v \in ForfeitTypes
    /\ v # widget_state[u].forfeit_type
    /\ Changed(u, [widget_state[u] EXCEPT !.forfeit_type = v])

SetStartingChips(u, v) ==
    /\ u \in Sessions
    /\ v >= MinStartingChips
    /\ v # widget_state[u].starting_chips
    /\ Changed(u, [widget_state[u] EXCEPT !.starting_chips = v])

SetMaxKm(u, v) ==
    /\ u \in Sessions
    /\ LET w == widget_state[u] IN
       /\ ~mode_custom(w.mode)
       /\ v >= MinMaxKm
       /\ v # max_km(w)
       /\ Changed(u, [w EXCEPT !.max_km[unit_label(w)] = v])

SetNumPlayers(u, v) ==
    /\ u \in Sessions
    /\ v \in MinPlayers .. MaxPlayers
    /\ v # widget_state[u].num_players
    /\ Changed(u, [widget_state[u] EXCEPT !.num_players = v])

SetName(u, i, v) ==
    /\ u \in Sessions
    /\ LET w == widget_state[u] IN
       /\ i \in 1 .. w.num_players
       /\ v # w.name[i]
       /\ Changed(u, [w EXCEPT !.name[i] = v])

SetCategory(u, i, v) ==
    /\ u \in Sessions
    /\ LET w == widget_state[u] IN
       /\ mode_weighted(w.mode)
       /\ i \in 1 .. w.num_players
       /\ v \in Categories
       /\ v # w.cat[i]
       /\ Changed(u, [w EXCEPT !.cat[i] = v])

SetPlayerMax(u, i, v) ==
    /\ u \in Sessions
    /\ LET w == widget_state[u] IN
       /\ mode_custom(w.mode)
       /\ i \in 1 .. w.num_players
       /\ v >= MinMaxKm
       /\ v # w.maxkm[i]
       /\ Changed(u, [w EXCEPT !.maxkm[i] = v])

SetChips(u, i, v) ==
    /\ u \in Sessions
    /\ LET w == widget_state[u] IN
       /\ i \in ChipsInputs(w)
       /\ v >= 0
       /\ v # w.chips[ChipsKey(w, i)]
       /\ Changed(u, [w EXCEPT !.chips[ChipsKey(w, i)] = v])

\* "Calculate forfeits": rendered unless the execution stopped before it.
ClickCalculate(u) ==
    /\ u \in Sessions
    /\ ~page[u].error
    /\ Rerun(u, widget_state[u], Results(widget_state[u]))

\* "New game / reset" is rendered inside the Calculate branch.  The run its
\* click starts finds "Calculate forfeits" not clicked, so the branch, the
\* button and its st.rerun() are not executed.
ClickReset(u) ==
    /\ u \in Sessions
    /\ page[u].results
    /\ Changed(u, widget_state[u])

(***************************************************************************)
(* Spec: one session, from the first execution, under the user's actions.  *)
(* The user changes the widgets of the first MaxEdited players and types   *)
(* values from small sets.                                                 *)
(***************************************************************************)
MaxEdited == 1

StartingChipsChoices == {MinStartingChips, DefaultStartingChips}
MaxKmChoices == {MinMaxKm, DefaultMaxKm}
ForfeitTypeChoices == {"Run (km)", "Cycle (km)", "Burpees (reps)"}
PlayerCountChoices == {MinPlayers, DefaultPlayers}
NameChoices == {"Ann", DefaultName(1), DefaultName(2)}
CategoryChoices == {"Casual", "Athlete"}
ChipsChoices == {0, DefaultStartingChips, DefaultStartingChips * DefaultPlayers}

Init ==
    /\ widget_state = [u \in {1} |-> FirstRun]
    /\ page = [u \in {1} |-> FormPage(NoWidgets)]

Next ==
    \/ \E u \in SessionIds, v \in Modes : SetMode(u, v)
    \/ \E u \in SessionIds, v \in ForfeitTypeChoices : SetForfeitType(u, v)
    \/ \E u \in SessionIds, v \in StartingChipsChoices : SetStartingChips(u, v)
    \/ \E u \in SessionIds, v \in MaxKmChoices : SetMaxKm(u, v)
    \/ \E u \in SessionIds, v \in PlayerCountChoices : SetNumPlayers(u, v)
    \/ \E u \in SessionIds, i \in 1 .. MaxEdited, v \in NameChoices :
            SetName(u, i, v)
    \/ \E u \in SessionIds, i \in 1 .. MaxEdited, v \in CategoryChoices :
            SetCategory(u, i, v)
    \/ \E u \in SessionIds, i \in 1 .. MaxEdited, v \in MaxKmChoices :
            SetPlayerMax(u, i, v)
    \/ \E u \in SessionIds, i \in 1 .. MaxEdited, v \in ChipsChoices :
            SetChips(u, i, v)
    \/ \E u \in SessionIds : ClickCalculate(u)
    \/ \E u \in SessionIds : ClickReset(u)

Spec == Init /\ [][Next]_vars

(***************************************************************************)
(* CalcSpec: the Calculate handler on a range of games.  A game is the     *)
(* widget state a session has reached when the user clicks "Calculate      *)
(* forfeits": two players under their default names, who share the         *)
(* setting of the mode and have each entered their final chips.            *)
(***************************************************************************)
\* The widget state in which the players (under their default names) have
\* the given settings (categories or personal maxima, by mode) and chips.
Game(mode, starting_chips, max, settings, chips) ==
    LET n     == Len(chips)
        At(k) == CHOOSE i \in 1 .. n : DefaultName(i) = k[1]
    IN  AfterRun(
          [mode |-> mode, forfeit_type |-> DefaultForfeitType,
           starting_chips |-> starting_chips, num_players |-> n,
           max_km |-> [k \in {FORFEIT_TYPE_CONFIG(DefaultForfeitType).unit} |-> max],
           name |-> <<>>,
           cat |-> IF mode_weighted(mode) THEN settings ELSE <<>>,
           maxkm |-> IF mode_custom(mode) THEN settings ELSE <<>>,
           chips |-> [k \in {<<DefaultName(i), ChipStep(starting_chips)>> :
                                i \in 1 .. n} |-> chips[At(k)]]])

MaxSmallStart == 3

CalcStartingChips == (MinStartingChips .. MaxSmallStart) \cup {40, DefaultStartingChips}
CalcMaxKm == {MinMaxKm, 5, DefaultMaxKm}
CalcPlayerMax == {MinMaxKm, DefaultMaxKm, 2 * DefaultMaxKm}
CalcChips(s) == {0, s \div 2, s - 1, s, s + 1, 2 * s}

CalcGames ==
    UNION {
      {Game("Equal", s, m, <<>>, <<c1, c2>>) :
          m \in CalcMaxKm, c1 \in CalcChips(s), c2 \in CalcChips(s)}
      \cup
      {Game("Weighted", s, m, <<f, f>>, <<c1, c2>>) :
          m \in CalcMaxKm, f \in Categories,
          c1 \in CalcChips(s), c2 \in CalcChips(s)}
      \cup
      {Game("Custom", s, DefaultMaxKm, <<m, m>>, <<c1, c2>>) :
          m \in CalcPlayerMax, c1 \in CalcChips(s), c2 \in CalcChips(s)}
      : s \in CalcStartingChips}

CalcInit ==
    \E g \in CalcGames :
        /\ widget_state = [u \in {1} |-> g]
        /\ page = [u \in {1} |-> FormPage(g)]

CalcNext == \E u \in SessionIds : ClickCalculate(u)

CalcSpec == CalcInit /\ [][CalcNext]_vars

(***************************************************************************)
(* PairSpec: two sessions play the same game (mode, starting chips, max    *)
(* forfeit, players' settings) and enter final chips of their own.         *)
(***************************************************************************)
PairChips(s) == {0, s \div 2, s, s + s \div 2}

PairGames(c1, c2) ==
    {Game("Equal", DefaultStartingChips, DefaultMaxKm, <<>>, <<c1, c2>>)}
    \cup
    {Game("Weighted", DefaultStartingChips, DefaultMaxKm, <<f, "Casual">>, <<c1, c2>>) :
        f \in CategoryChoices}
    \cup
    {Game("Custom", DefaultStartingChips, DefaultMaxKm, <<m, DefaultMaxKm>>, <<c1, c2>>) :
        m \in MaxKmChoices}

\* g with the final chips c1, c2 entered instead.
WithChips(g, c1, c2) ==
    AfterRun([g EXCEPT !.chips = [k \in DOMAIN g.chips |->
                 IF k[1] = DefaultName(1) THEN c1 ELSE c2]])

PairInit ==
    \E c1, c2, d1, d2 \in PairChips(DefaultStartingChips) :
        \E g \in PairGames(c1, c2) :
            /\ widget_state = [u \in SessionIds |->
                                 IF u = 1 THEN g ELSE WithChips(g, d1, d2)]
            /\ page = [u \in SessionIds |-> FormPage(g)]

PairNext == \E u \in SessionIds : ClickCalculate(u)

PairSpec == PairInit /\ [][PairNext]_vars

(***************************************************************************)
(* The properties.  In a state where session u shows results, the page was *)
(* computed from the session's widget state: every change of a widget      *)
(* replaces the page by the form.                                          *)
(***************************************************************************)
ShowsResults(u) == u \in Sessions /\ page[u].results

PlayersOf(u) == 1 .. widget_state[u].num_players
PlayerOf(u, i) == players(widget_state[u])[i]
StartOf(u) == widget_state[u].starting_chips
ModeOf(u) == widget_state[u].mode

\* The global max forfeit of the session as a float (Equal and Weighted).
GlobalMax(u) == Tenths(max_km(widget_state[u]))

\* The multipliers as the rules state them, in tenths.
StatedMultiplier(c) ==
    CASE c = "Couch Potato" -> 6
      [] c = "Beginner"     -> 8
      [] c = "Casual"       -> 10
      [] c = "Regular"      -> 12
      [] c = "Athlete"      -> 14

\* C1: a player whose final chips are at least the starting chips has a
\* forfeit of exactly 0, in every mode: the unrounded value and the
\* displayed one.
C1_NoForfeitAtOrAboveStart ==
    \A u \in SessionIds : ShowsResults(u) =>
        \A i \in PlayersOf(u) :
            PlayerOf(u, i).chips >= StartOf(u) =>
                /\ page[u].forfeit_km[i] = FZero
                /\ page[u].rows[i].forfeit = 0

\* A Weighted game in which an Athlete has doubled the starting chips and
\* owes nothing, while the other player owes something.
C1_Witness ==
    \E u \in SessionIds : ShowsResults(u) /\ mode_weighted(ModeOf(u)) /\
        \E i, j \in PlayersOf(u) :
            /\ PlayerOf(u, i).fitness = "Athlete"
            /\ PlayerOf(u, i).chips = 2 * StartOf(u)
            /\ page[u].forfeit_km[i] = FZero
            /\ page[u].forfeit_km[j] # FZero

\* C2, as stated: the forfeit is never negative and never exceeds the global
\* max forfeit in Equal and Weighted modes, the personal max in Custom mode.
C2_WithinGlobalOrPersonalMax ==
    \A u \in SessionIds : ShowsResults(u) =>
        \A i \in PlayersOf(u) :
            /\ FLeq(FZero, page[u].forfeit_km[i])
            /\ FLeq(page[u].forfeit_km[i],
                    IF mode_custom(ModeOf(u))
                    THEN Tenths(PlayerOf(u, i).max_km)
                    ELSE GlobalMax(u))

\* C2, amended: the forfeit is never negative and never exceeds the global
\* max forfeit in Equal mode, the global max forfeit times the multiplier of
\* the player's category in Weighted mode, the personal max in Custom mode.
C2_WithinScaledMax ==
    \A u \in SessionIds : ShowsResults(u) =>
        \A i \in PlayersOf(u) :
            /\ FLeq(FZero, page[u].forfeit_km[i])
            /\ FLeq(page[u].forfeit_km[i],
                    IF mode_custom(ModeOf(u))
                    THEN Tenths(PlayerOf(u, i).max_km)
                    ELSE IF mode_weighted(ModeOf(u))
                    THEN FMul(GlobalMax(u),
                              Tenths(StatedMultiplier(PlayerOf(u, i).fitness)))
                    ELSE GlobalMax(u))

\* A Weighted game in which an Athlete without chips owes more than the
\* global max forfeit.
C2_Witness ==
    \E u \in SessionIds : ShowsResults(u) /\ mode_weighted(ModeOf(u)) /\
        \E i \in PlayersOf(u) :
            /\ PlayerOf(u, i).fitness = "Athlete"
            /\ PlayerOf(u, i).chips = 0
            /\ FCmp(page[u].forfeit_km[i], GlobalMax(u)) > 0

\* C3: a player with 0 final chips owes exactly the maximum: the global max
\* forfeit in Equal mode, the global max forfeit times the category's
\* multiplier in Weighted mode, the personal max in Custom mode.  The
\* displayed amounts (hundredths) are those of the maxima entered (tenths).
C3_FullForfeitAtZeroChips ==
    \A u \in SessionIds : ShowsResults(u) =>
        \A i \in PlayersOf(u) :
            PlayerOf(u, i).chips = 0 =>
                LET p == PlayerOf(u, i)
                    w == widget_state[u]
                IN  CASE mode_weighted(w.mode) ->
                            /\ page[u].forfeit_km[i] =
                                 FMul(GlobalMax(u), Tenths(StatedMultiplier(p.fitness)))
                            /\ page[u].rows[i].forfeit =
                                 max_km(w) * StatedMultiplier(p.fitness)
                      [] mode_custom(w.mode) ->
                            /\ page[u].forfeit_km[i] = Tenths(p.max_km)
                            /\ page[u].rows[i].forfeit = 10 * p.max_km
                      [] OTHER ->
                            /\ page[u].forfeit_km[i] = GlobalMax(u)
                            /\ page[u].rows[i].forfeit = 10 * max_km(w)

\* A Custom game in which a player with a personal max of 20.0 and no chips
\* is shown a forfeit of 20.
C3_Witness ==
    \E u \in SessionIds : ShowsResults(u) /\ mode_custom(ModeOf(u)) /\
        \E i \in PlayersOf(u) :
            /\ PlayerOf(u, i).chips = 0
            /\ PlayerOf(u, i).max_km = 2 * DefaultMaxKm
            /\ page[u].rows[i].forfeit = 20 * DefaultMaxKm

\* The mode's setting of a player: category, personal max, or nothing.
SettingOf(p) == <<Get(p, "fitness", NoValue), Get(p, "max_km", NoValue)>>

\* C4: with the mode, the starting chips, the max forfeit and the category
\* fixed, the forfeit does not increase with the final chips: of two players
\* of a game with the same setting, the one with at least as many chips owes
\* at most as much (unrounded and displayed).
C4_ForfeitNonIncreasingInChips ==
    \A u \in SessionIds : ShowsResults(u) =>
        \A i, j \in PlayersOf(u) :
            (/\ SettingOf(PlayerOf(u, i)) = SettingOf(PlayerOf(u, j))
             /\ PlayerOf(u, i).chips <= PlayerOf(u, j).chips)
            => /\ FLeq(page[u].forfeit_km[j], page[u].forfeit_km[i])
               /\ page[u].rows[j].forfeit <= page[u].rows[i].forfeit

\* Two players below the starting chips, the richer of whom owes strictly
\* less and still something.
C4_Witness ==
    \E u \in SessionIds : ShowsResults(u) /\
        \E i, j \in PlayersOf(u) :
            /\ 0 < PlayerOf(u, i).chips
            /\ PlayerOf(u, i).chips < PlayerOf(u, j).chips
            /\ PlayerOf(u, j).chips < StartOf(u)
            /\ FCmp(page[u].forfeit_km[j], page[u].forfeit_km[i]) < 0
            /\ FCmp(FZero, page[u].forfeit_km[j]) < 0

\* The Equal-mode forfeit of a player with these chips in session u's game.
EqualForfeit(u, chips) ==
    ForfeitKm("Equal", StartOf(u), max_km(widget_state[u]), [chips |-> chips])

\* C5: in Weighted mode the forfeit is the Equal-mode forfeit for the same
\* inputs times the category's multiplier (0.6, 0.8, 1.0, 1.2, 1.4); a
\* category that is not one of the five counts 1.0.  With starting chips
\* 1000, max forfeit 10 and final chips 500, Equal mode shows 5 and Weighted
\* mode shows 7 for an Athlete.
C5_WeightedIsEqualTimesMultiplier ==
    /\ Multiplier("Marathoner") = FOne
    /\ \A u \in SessionIds : (ShowsResults(u) /\ mode_weighted(ModeOf(u))) =>
          \A i \in PlayersOf(u) :
              LET p == PlayerOf(u, i) IN
              /\ page[u].forfeit_km[i] =
                   FMul(EqualForfeit(u, p.chips), Tenths(StatedMultiplier(p.fitness)))
              /\ ForfeitKm("Weighted", StartOf(u), max_km(widget_state[u]),
                           [chips |-> p.chips, fitness |-> "Marathoner"])
                   = EqualForfeit(u, p.chips)
    /\ \A u \in SessionIds : ShowsResults(u) =>
          \A i \in PlayersOf(u) :
              (/\ StartOf(u) = 1000
               /\ ~mode_custom(ModeOf(u))
               /\ max_km(widget_state[u]) = 100
               /\ PlayerOf(u, i).chips = 500)
              => /\ mode_equal(ModeOf(u)) => page[u].rows[i].forfeit = 500
                 /\ (/\ mode_weighted(ModeOf(u))
                     /\ PlayerOf(u, i).fitness = "Athlete")
                    => page[u].rows[i].forfeit = 700

\* The Weighted game of the example: an Athlete with 500 of 1000 chips and a
\* max forfeit of 10 is shown 7.
C5_Witness ==
    \E u \in SessionIds : ShowsResults(u) /\ mode_weighted(ModeOf(u)) /\
        \E i \in PlayersOf(u) :
            /\ StartOf(u) = 1000
            /\ max_km(widget_state[u]) = 100
            /\ PlayerOf(u, i).chips = 500
            /\ PlayerOf(u, i).fitness = "Athlete"
            /\ page[u].rows[i].forfeit = 700

\* C6: a player's forfeit depends only on the player's own final chips and
\* setting and on the game's mode, starting chips and max forfeit: two games
\* that agree on these give the player the same forfeit, row and sentence,
\* whatever the other players' chips are and whether or not the chip totals
\* match.
C6_ForfeitIndependentOfOthers ==
    \A u, v \in SessionIds : (ShowsResults(u) /\ ShowsResults(v)) =>
        \A i \in PlayersOf(u) \cap PlayersOf(v) :
            (/\ ModeOf(u) = ModeOf(v)
             /\ StartOf(u) = StartOf(v)
             /\ max_km(widget_state[u]) = max_km(widget_state[v])
             /\ widget_state[u].forfeit_type = widget_state[v].forfeit_type
             /\ PlayerOf(u, i) = PlayerOf(v, i))
            => /\ page[u].forfeit_km[i] = page[v].forfeit_km[i]
               /\ page[u].rows[i] = page[v].rows[i]
               /\ page[u].summary[i] = page[v].summary[i]

\* Two games in which player 1 has half the starting chips and owes the same,
\* while player 2's chips differ: the totals match in one game and not in the
\* other.
C6_Witness ==
    /\ ShowsResults(1) /\ ShowsResults(2)
    /\ PlayerOf(1, 1) = PlayerOf(2, 1)
    /\ 2 * PlayerOf(1, 1).chips = StartOf(1)
    /\ PlayerOf(1, 2).chips # PlayerOf(2, 2).chips
    /\ page[1].warning = "none"
    /\ page[2].warning = "less"
    /\ page[1].forfeit_km[1] = page[2].forfeit_km[1]
    /\ page[1].forfeit_km[1] # FZero

\* C9: the sentence of a player is "No ... required" exactly when
\* the player's final chips are at least the starting chips; every other
\* player's sentence states a non-zero amount and the deadline.
C9_NoneRequiredIffAtOrAboveStart ==
    \A u \in SessionIds : ShowsResults(u) =>
        \A i \in PlayersOf(u) :
            LET sn == page[u].summary[i] IN
            /\ sn.text = "none required" <=> PlayerOf(u, i).chips >= StartOf(u)
            /\ PlayerOf(u, i).chips < StartOf(u) => (sn.amount # 0 /\ sn.deadline)

\* A player one chip short of the starting chips whose forfeit, not 0, is
\* displayed as 0 and whose sentence asks for nothing.
C9_Witness ==
    \E u \in SessionIds : ShowsResults(u) /\
        \E i \in PlayersOf(u) :
            /\ PlayerOf(u, i).chips = StartOf(u) - 1
            /\ page[u].forfeit_km[i] # FZero
            /\ page[u].rows[i].forfeit = 0
            /\ page[u].summary[i].text = "none required"

\* The final chips entered in w for players 1 .. n, added up.
RECURSIVE EnteredTotal(_, _)
EnteredTotal(w, n) ==
    IF n = 0 THEN 0
    ELSE EnteredTotal(w, n - 1) + Lookup(w.chips, ChipsKey(w, n), DefaultChips)

\* C7: every click on "Calculate forfeits" shows the results, with a warning
\* exactly when the final chips entered do not add up to starting chips times
\* the number of players ("more" if they exceed it, "less" if they fall
\* short), and with one table row and one summary sentence per player,
\* warning or not.
C7_WarningIffTotalsDifferAndResultsShown ==
    [][\A u \in SessionIds : ClickCalculate(u) =>
          LET w     == widget_state[u]
              n     == w.num_players
              total == EnteredTotal(w, n)
              start == w.starting_chips * n
          IN  /\ page'[u].results
              /\ page'[u].warning = "none" <=> total = start
              /\ page'[u].warning = "more" <=> total > start
              /\ page'[u].warning = "less" <=> total < start
              /\ DOMAIN page'[u].rows = 1 .. n
              /\ DOMAIN page'[u].summary = 1 .. n
              /\ \A i \in 1 .. n :
                    /\ page'[u].rows[i].player = NameOf(w, i)
                    /\ page'[u].summary[i].player = NameOf(w, i)]_vars

\* Results below the "more chips" warning, a row and a sentence for each of
\* the players.
C7_Witness ==
    \E u \in SessionIds :
        /\ ShowsResults(u)
        /\ page[u].warning = "more"
        /\ EnteredTotal(widget_state[u], widget_state[u].num_players)
             > StartOf(u) * widget_state[u].num_players
        /\ Len(page[u].rows) = widget_state[u].num_players
        /\ Len(page[u].summary) = widget_state[u].num_players

\* C8: after a click on "New game / reset" every input is back at its
\* default value and no results are shown.
C8_ResetClearsInputs ==
    [][\A u \in SessionIds : ClickReset(u) =>
          /\ widget_state'[u] = FirstRun
          /\ ~page'[u].results]_vars

\* The final chips entered for player i.
EnteredChips(w, i) == Lookup(w.chips, ChipsKey(w, i), DefaultChips)

\* C10: whatever names the user types, the final chips inputs of distinct
\* players have distinct keys and the form renders without error; final
\* chips entered are kept when a name changes; and entering one player's
\* final chips changes no other player's.
C10_IndependentChipEntries ==
    [][\A u \in SessionIds : u \in Sessions =>
          LET w  == widget_state[u]
              w2 == widget_state'[u]
              n  == w2.num_players
          IN  /\ ~page'[u].error
              /\ \A i, j \in 1 .. n : i # j => ChipsKey(w2, i) # ChipsKey(w2, j)
              /\ (\E i \in 1 .. n, v \in NameChoices : SetName(u, i, v)) =>
                    \A j \in 1 .. n : EnteredChips(w2, j) = EnteredChips(w, j)
              /\ \A i \in 1 .. n :
                    (\E v \in ChipsChoices : SetChips(u, i, v)) =>
                        \A j \in 1 .. n \ {i} :
                            EnteredChips(w2, j) = EnteredChips(w, j)]_vars

=============================================================================
